---------------------------- MODULE Spec2Model ----------------------------
(***************************************************************************)
(* A model of the C++ wrapper include/libfreenect.hpp: the class           *)
(* FreenectDevice (one opened Kinect), the class template Freenect<T>      *)
(* (driver context, device map, event thread) and the part of the C driver *)
(* the wrapper calls.  Application calls are serial (one application       *)
(* thread); the event thread started by the constructor interleaves with   *)
(* them step by step.                                                      *)
(*                                                                         *)
(* Driver status codes: 0 is success, Fail is any non-zero status.         *)
(* Exceptions: every throw in the header is std::runtime_error; lastError  *)
(* names the throw site that reached the application thread by the error   *)
(* kind the design document gives it.                                      *)
(***************************************************************************)
EXTENDS Integers, Sequences, FiniteSets, TLC

\* ------------------------------------------------------------------ bounds
NumDevices == 2     \* Kinects attached to the host: driver indices 0..NumDevices-1
MaxFrames  == 1     \* frames the driver delivers in one run
MaxStopCalls == 2   \* freenect_process_events calls counted after m_stop = true

Fail == -1
Status == {0, Fail}

Devices == 0 .. (NumDevices - 1)
Indices == 0 .. NumDevices          \* NumDevices itself is an out-of-range index
Kinds   == {"depth", "rgb"}

VARIABLES
    mgr,            \* the Freenect<T> object: "none", "alive", "failed", "destroyed"
    ctx,            \* the driver context behind m_ctx: "none", "open", "released"
    m_stop,         \* Freenect::m_stop
    m_devices,      \* Freenect::m_devices: index -> handle (T*); its last value once destroyed
    handles,        \* every T allocated by new: handle -> [dev, alive]
    dev,            \* the driver's per-device state (freenect_device)
    pump_pc,        \* position of the thread running pthread_callback
    cb,             \* the frame callback the event thread is executing
    td_pc,          \* position of ~Freenect on the application thread
    td_it,          \* keys the iterator of ~Freenect has not visited yet
    aborted,        \* the process was killed (std::terminate or a crash)
    lastError,      \* the exception the last application call raised, "none" if it returned
    threadsStarted, \* successful pthread_create calls
    peThreads,      \* threads that have called freenect_process_events
    clock,          \* driver timestamp of the last frame
    delivered,      \* per driver device: frames the driver handed to a callback
    calls,          \* per handle: invocations of DepthCallback / RGBCallback
    live,           \* indices createDevice returned for and deleteDevice has not taken
    tdlog,          \* the steps ~Freenect has performed, in order
    callsAfterStop, \* freenect_process_events calls begun after m_stop = true
    failedCreate,   \* the registry and the handles as a createDevice that threw found them
    absentDelete    \* the state a deleteDevice of an unregistered index found

vars == << mgr, ctx, m_stop, m_devices, handles, dev, pump_pc, cb, td_pc, td_it,
           aborted, lastError, threadsStarted, peThreads, clock, delivered, calls,
           live, tdlog, callsAfterStop, failedCreate, absentDelete >>

\* --------------------------------------------------------------- the driver
\* A handle (the address of a T) is named by the index it was created for and
\* the number of handles created for that index so far.
Null == << -1, 0 >>

NewHandle(i) == << i, Cardinality({h \in DOMAIN handles : h[1] = i}) + 1 >>

ClosedDev == [open |-> FALSE, user |-> Null,
              depthCb |-> FALSE, rgbCb |-> FALSE, depthOn |-> FALSE, rgbOn |-> FALSE]

\* freenect_open_device: out of range and already open are rejected; s is the
\* status the driver reports otherwise (Fail: disconnected).
OpenStatus(i, s) == IF i \in Devices /\ ~dev[i].open THEN s ELSE Fail

\* freenect_start_* / freenect_stop_*: a request that does not change the
\* stream is rejected; s is the status the driver reports otherwise.
StreamStatus(d, kind, on, s) ==
    LET cur == IF kind = "depth" THEN dev[d].depthOn ELSE dev[d].rgbOn
    IN  IF cur = on THEN Fail ELSE s

SetStream(d, kind, on) ==
    IF kind = "depth" THEN [dev EXCEPT ![d].depthOn = on]
                      ELSE [dev EXCEPT ![d].rgbOn = on]

\* The driver has a frame of this kind for device d.
HasFrame(d, kind) ==
    /\ dev[d].open
    /\ IF kind = "depth" THEN dev[d].depthOn /\ dev[d].depthCb
                         ELSE dev[d].rgbOn /\ dev[d].rgbCb

NoCb == [dev |-> -1, kind |-> "none", ts |-> 0, device |-> Null]

\* No createDevice has thrown since the last call that returned.
NoFail == [failed |-> FALSE, reg |-> << >>, hs |-> << >>]

\* The last application call was not a deleteDevice of an unregistered index.
NoAbsent == [absent |-> FALSE, reg |-> << >>, hs |-> << >>, dv |-> << >>,
             stop |-> FALSE, threads |-> 0]

Min(S) == CHOOSE x \in S : \A y \in S : x <= y

\* ------------------------------------------------------ std::map and the heap
EmptyMap == [x \in {} |-> 0]

Insert(m, k, v) ==
    IF k \in DOMAIN m THEN m
    ELSE [x \in (DOMAIN m) \cup {k} |-> IF x = k THEN v ELSE m[x]]

\* erase(lower_bound(k)) in place of erase(k): an absent key takes the next
\* entry with it.
Erase_LowerBound(m, k) ==
    LET above == {x \in DOMAIN m : x >= k}
    IN  IF above = {} THEN m
        ELSE [x \in (DOMAIN m) \ {CHOOSE y \in above : \A z \in above : y <= z} |-> m[x]]

Erase_Keep(m, k) == m

Erase(m, k) == [x \in (DOMAIN m) \ {k} |-> m[x]]

\* new T: the object at address k is v
Put(m, k, v) == [x \in (DOMAIN m) \cup {k} |-> IF x = k THEN v ELSE m[x]]

\* --------------------------------------------------------------------- Init
Init ==
    /\ mgr = "none"
    /\ ctx = "none"
    /\ m_stop = FALSE
    /\ m_devices = EmptyMap
    /\ handles = EmptyMap
    /\ dev = [d \in Devices |-> ClosedDev]
    /\ pump_pc = "none"
    /\ cb = NoCb
    /\ td_pc = "idle"
    /\ td_it = {}
    /\ aborted = FALSE
    /\ lastError = "none"
    /\ threadsStarted = 0
    /\ peThreads = {}
    /\ clock = 0
    /\ delivered = [d \in Devices |-> << >>]
    /\ calls = EmptyMap
    /\ live = {}
    /\ tdlog = << >>
    /\ callsAfterStop = 0
    /\ failedCreate = NoFail
    /\ absentDelete = NoAbsent

\* ------------------------------------------------------ Freenect::Freenect
ConstructOutcome_IgnoreThread(si, st) == IF si # 0 THEN "InitError" ELSE "none"

\* What the constructor raises for the two statuses it tests.
ConstructOutcome(si, st) ==
    IF si # 0 THEN "InitError"
    ELSE IF st # 0 THEN "ThreadStartError"
    ELSE "none"

\* The context after the constructor: freenect_init opened it, and no path of
\* the constructor calls freenect_shutdown.
ConstructCtx(si, st) == IF si # 0 THEN "none" ELSE "open"

ThreadsCreated_Twice(si, st) == IF si = 0 /\ st = 0 THEN 2 ELSE 0

\* pthread_create is reached only after freenect_init succeeded.
ThreadsCreated(si, st) == IF si = 0 /\ st = 0 THEN 1 ELSE 0

Construct(si, st) ==
    /\ mgr = "none"
    /\ ctx' = ConstructCtx(si, st)
    /\ lastError' = ConstructOutcome(si, st)
    /\ mgr' = IF ConstructOutcome(si, st) = "none" THEN "alive" ELSE "failed"
    /\ threadsStarted' = threadsStarted + ThreadsCreated(si, st)
    /\ pump_pc' = IF ThreadsCreated(si, st) > 0 THEN "test" ELSE pump_pc
    /\ m_stop' = FALSE
    /\ UNCHANGED << m_devices, handles, dev, cb, td_pc, td_it, aborted, peThreads,
                    clock, delivered, calls, live, tdlog, callsAfterStop,
                    failedCreate, absentDelete >>

\* The application may call into the manager: it was constructed, its
\* destructor has not begun, and the process is running.
Callable == mgr = "alive" /\ td_pc = "idle" /\ ~aborted

deviceCount ==
    /\ Callable
    /\ lastError' = "none"
    /\ failedCreate' = NoFail
    /\ absentDelete' = NoAbsent
    /\ UNCHANGED << mgr, ctx, m_stop, m_devices, handles, dev, pump_pc, cb, td_pc,
                    td_it, aborted, threadsStarted, peThreads, clock, delivered,
                    calls, live, tdlog, callsAfterStop >>

\* ---------------------------------------------- FreenectDevice::FreenectDevice
\* The driver device after the constructor body.  sr and sd are the statuses
\* of freenect_set_rgb_format and freenect_set_depth_format: the constructor
\* does not look at them.
FreenectDevice(h, sr, sd) ==
    [open |-> TRUE, user |-> h,
     depthCb |-> TRUE, rgbCb |-> TRUE, depthOn |-> FALSE, rgbOn |-> FALSE]

\* ---------------------------------------------------- Freenect::createDevice
CreateInsert_EraseOnFail(i, st, h) ==
    IF st # 0 THEN Erase(m_devices, i) ELSE Insert(m_devices, i, h)

\* m_devices after the statement at line 112: new T(m_ctx, _index) is
\* evaluated before insert, so a constructor that threw (st # 0) never
\* reaches it.
CreateInsert(i, st, h) == IF st # 0 THEN m_devices ELSE Insert(m_devices, i, h)

\* The statuses freenect_set_rgb_format / freenect_set_depth_format can report
\* in createDevice(i, s, ..): a constructor whose open failed throws at line 47
\* and makes neither call.
FormatStatuses(i, s) == IF OpenStatus(i, s) # 0 THEN {0} ELSE Status

createDevice(i, s, sr, sd) ==
    /\ Callable
    /\ sr \in FormatStatuses(i, s) /\ sd \in FormatStatuses(i, s)
    /\ LET st == OpenStatus(i, s)
           h  == NewHandle(i)
       IN  IF st # 0
           THEN /\ lastError' = "DeviceOpenError"
                /\ m_devices' = CreateInsert(i, st, Null)
                /\ failedCreate' = [failed |-> TRUE, reg |-> m_devices, hs |-> handles]
                /\ UNCHANGED << handles, dev, calls, live >>
           ELSE /\ handles' = Put(handles, h, [dev |-> i, alive |-> TRUE])
                /\ calls' = Put(calls, h, << >>)
                /\ dev' = [dev EXCEPT ![i] = FreenectDevice(h, sr, sd)]
                /\ m_devices' = CreateInsert(i, st, h)
                /\ live' = live \cup {i}
                /\ lastError' = "none"
                /\ failedCreate' = NoFail
    /\ absentDelete' = NoAbsent
    /\ UNCHANGED << mgr, ctx, m_stop, pump_pc, cb, td_pc, td_it, aborted,
                    threadsStarted, peThreads, clock, delivered, tdlog,
                    callsAfterStop >>

\* ---------------------------------------------------- Freenect::deleteDevice
\* m_devices.erase(_index): the map holds T*, so the element is dropped and the
\* object it points to is not touched.
deleteDevice(i) ==
    /\ Callable
    /\ m_devices' = Erase(m_devices, i)
    /\ live' = live \ {i}
    /\ lastError' = "none"
    /\ failedCreate' = NoFail
    /\ absentDelete' = IF i \in DOMAIN m_devices THEN NoAbsent
                       ELSE [absent |-> TRUE, reg |-> m_devices, hs |-> handles,
                             dv |-> dev, stop |-> m_stop, threads |-> threadsStarted]
    /\ UNCHANGED << mgr, ctx, m_stop, handles, dev, pump_pc, cb, td_pc, td_it,
                    aborted, threadsStarted, peThreads, clock, delivered, calls,
                    tdlog, callsAfterStop >>

\* ------------------------- FreenectDevice::startRGB/stopRGB/startDepth/stopDepth
\* The members of FreenectDevice are called on the object createDevice
\* returned a reference to: neither the registry nor the manager takes part.
\* The application thread is between two calls (not inside ~Freenect), and the
\* object has not been destroyed.
OnHandle(h) ==
    /\ td_pc \in {"idle", "threw", "done"} /\ ~aborted
    /\ h \in DOMAIN handles
    /\ handles[h].alive

StreamControl(h, kind, on, s) ==
    /\ OnHandle(h)
    /\ LET d  == handles[h].dev
           st == StreamStatus(d, kind, on, s)
       IN  /\ dev' = IF st = 0 THEN SetStream(d, kind, on) ELSE dev
           /\ lastError' = IF st = 0 THEN "none" ELSE "StreamControlError"
    /\ failedCreate' = NoFail
    /\ absentDelete' = NoAbsent
    /\ UNCHANGED << mgr, ctx, m_stop, m_devices, handles, pump_pc, cb, td_pc, td_it,
                    aborted, threadsStarted, peThreads, clock, delivered, calls,
                    live, tdlog, callsAfterStop >>

startRGB(h, s)   == StreamControl(h, "rgb", TRUE, s)
stopRGB(h, s)    == StreamControl(h, "rgb", FALSE, s)
startDepth(h, s) == StreamControl(h, "depth", TRUE, s)
stopDepth(h, s)  == StreamControl(h, "depth", FALSE, s)

\* ------------- FreenectDevice::setTiltDegrees / setLed / getAccelerometers
\* One driver call on the handle's device; s is the status the driver reports.
\* The wrapper keeps nothing of the call: it returns, or throws on s # 0.
DeviceCommand(h, err, s) ==
    /\ OnHandle(h)
    /\ lastError' = IF s = 0 THEN "none" ELSE err
    /\ failedCreate' = NoFail
    /\ absentDelete' = NoAbsent
    /\ UNCHANGED << mgr, ctx, m_stop, m_devices, handles, dev, pump_pc, cb, td_pc,
                    td_it, aborted, threadsStarted, peThreads, clock, delivered,
                    calls, live, tdlog, callsAfterStop >>

setTiltDegrees(h, s)       == DeviceCommand(h, "TiltError", s)
setLed(h, s)               == DeviceCommand(h, "LedError", s)
getAccelerometers(h, s)    == DeviceCommand(h, "AccelReadError", s)
getAccelerometersRaw(h, s) == DeviceCommand(h, "AccelReadError", s)

\* ------------------------------------------------------ Freenect::operator()
\* The value the loop test reads.  After a destructor that threw, the object
\* is gone while the thread still runs: the read is of freed storage.
StopValues == IF mgr = "destroyed" THEN BOOLEAN ELSE {m_stop}

\* pthread_callback has no return statement: once operator() returns, control
\* flows off the end of a function returning void*, which is undefined.  Builds
\* return (the value is discarded by pthread_join(m_thread, NULL)), or run into
\* whatever follows the function and crash the process, or, with operator()
\* inlined into pthread_callback, drop the exit edge of the loop: the thread
\* calls freenect_process_events again whatever m_stop holds.
AfterLoop == {"exited", "crashed", "call"}

PumpTest ==
    /\ pump_pc = "test" /\ ~aborted
    /\ \E stop \in StopValues :
         IF stop
         THEN \E pc \in AfterLoop :
                /\ pc = "call" => callsAfterStop < MaxStopCalls
                /\ pump_pc' = pc
                /\ aborted' = (pc = "crashed")
         ELSE /\ pump_pc' = "call"
              /\ UNCHANGED aborted
    /\ UNCHANGED << mgr, ctx, m_stop, m_devices, handles, dev, cb, td_pc, td_it,
                    lastError, threadsStarted, peThreads, clock, delivered,
                    calls, live, tdlog, callsAfterStop,
                    failedCreate, absentDelete >>

\* The thread enters freenect_process_events(m_ctx).
PumpEnter ==
    /\ pump_pc = "call" /\ ~aborted
    /\ pump_pc' = "in"
    /\ peThreads' = peThreads \cup {"pump"}
    /\ callsAfterStop' = IF m_stop THEN callsAfterStop + 1 ELSE callsAfterStop
    /\ UNCHANGED << mgr, ctx, m_stop, m_devices, handles, dev, cb, td_pc, td_it,
                    aborted, lastError, threadsStarted, clock, delivered,
                    calls, live, tdlog,
                    failedCreate, absentDelete >>

\* Inside freenect_process_events the driver has a frame for device d and calls
\* the callback registered for its kind; the trampoline's first statement
\* recovers the handle from the user pointer.
DriverDeliver(d, kind) ==
    /\ pump_pc = "in" /\ ~aborted
    /\ clock < MaxFrames
    /\ HasFrame(d, kind)
    /\ clock' = clock + 1
    /\ delivered' = [delivered EXCEPT ![d] = Append(@, [kind |-> kind, ts |-> clock + 1])]
    /\ cb' = [dev |-> d, kind |-> kind, ts |-> clock + 1, device |-> dev[d].user]
    /\ pump_pc' = "cb"
    /\ UNCHANGED << mgr, ctx, m_stop, m_devices, handles, dev, td_pc, td_it, aborted,
                    lastError, threadsStarted, peThreads, live, calls, tdlog,
                    callsAfterStop,
                    failedCreate, absentDelete >>

\* device->DepthCallback(...) / device->RGBCallback(...): a virtual call through
\* the recovered pointer.  On a destroyed handle it is a use of a dead object:
\* the override may still run on the freed storage, or the call crashes.
Dispatch(kind) ==
    /\ pump_pc = "cb" /\ ~aborted
    /\ cb.kind = kind
    /\ LET h == cb.device
           entry(ok) == [kind |-> kind, ts |-> cb.ts, dev |-> cb.dev,
                         thread |-> "pump", live |-> ok]
       IN  \/ /\ calls' = [calls EXCEPT ![h] = Append(@, entry(handles[h].alive))]
              /\ pump_pc' = "in"
              /\ UNCHANGED aborted
           \/ /\ ~handles[h].alive
              /\ pump_pc' = "crashed"
              /\ aborted' = TRUE
              /\ UNCHANGED calls
    /\ cb' = NoCb
    /\ UNCHANGED << mgr, ctx, m_stop, m_devices, handles, dev, td_pc, td_it,
                    lastError, threadsStarted, peThreads, clock, delivered, live,
                    tdlog, callsAfterStop,
                    failedCreate, absentDelete >>

freenect_depth_callback == Dispatch("depth")
freenect_rgb_callback   == Dispatch("rgb")

\* freenect_process_events returns s.  A non-zero status throws out of
\* operator() and pthread_callback; nothing on the thread catches it, so the
\* runtime calls std::terminate.
PumpReturn(s) ==
    /\ pump_pc = "in" /\ ~aborted
    /\ IF s = 0
       THEN pump_pc' = "test" /\ UNCHANGED aborted
       ELSE pump_pc' = "threw" /\ aborted' = TRUE
    /\ UNCHANGED << mgr, ctx, m_stop, m_devices, handles, dev, cb, td_pc, td_it,
                    lastError, threadsStarted, peThreads, clock, delivered,
                    calls, live, tdlog, callsAfterStop,
                    failedCreate, absentDelete >>

\* ------------------------------------------------------ Freenect::~Freenect
TeardownBegin ==
    /\ Callable
    /\ td_pc' = "loop"
    /\ td_it' = DOMAIN m_devices
    /\ lastError' = "none"
    /\ failedCreate' = NoFail
    /\ absentDelete' = NoAbsent
    /\ UNCHANGED << mgr, ctx, m_stop, m_devices, handles, dev, pump_pc, cb, aborted,
                    threadsStarted, peThreads, clock, delivered, calls, live, tdlog,
                    callsAfterStop >>

\* delete it->second: ~FreenectDevice closes the driver device and throws when
\* the driver reports a failure; the exception leaves ~Freenect.
TeardownDelete(s) ==
    /\ td_pc = "loop" /\ ~aborted
    /\ td_it # {}
    /\ LET i == Min(td_it)
           h == m_devices[i]
           d == handles[h].dev
       IN  /\ handles' = [handles EXCEPT ![h].alive = FALSE]
           /\ IF s = 0
              THEN /\ dev' = [dev EXCEPT ![d] = ClosedDev]
                   /\ td_it' = td_it \ {i}
                   /\ tdlog' = Append(tdlog, << "close", d >>)
                   /\ UNCHANGED << td_pc, mgr, lastError >>
              ELSE /\ td_pc' = "threw"
                   /\ mgr' = "destroyed"
                   /\ lastError' = "DeviceCloseError"
                   /\ UNCHANGED << dev, td_it, tdlog >>
    /\ UNCHANGED << ctx, m_stop, m_devices, pump_pc, cb, aborted, threadsStarted,
                    peThreads, clock, delivered, calls, live, callsAfterStop,
                    failedCreate, absentDelete >>

TeardownStop ==
    /\ td_pc = "loop" /\ ~aborted
    /\ td_it = {}
    /\ m_stop' = TRUE
    /\ td_pc' = "join"
    /\ tdlog' = Append(tdlog, << "stop" >>)
    /\ UNCHANGED << mgr, ctx, m_devices, handles, dev, pump_pc, cb, td_it, aborted,
                    lastError, threadsStarted, peThreads, clock, delivered,
                    calls, live, callsAfterStop,
                    failedCreate, absentDelete >>

\* pthread_detach in place of pthread_join: returns for any started thread.
Joinable_Detached == threadsStarted >= 1

Joinable_NoWait == TRUE

\* pthread_join(m_thread, NULL) returns once the thread has returned from
\* pthread_callback.
Joinable == pump_pc = "exited"

TeardownJoin ==
    /\ td_pc = "join" /\ ~aborted
    /\ Joinable
    /\ td_pc' = "shutdown"
    /\ tdlog' = Append(tdlog, << "join" >>)
    /\ UNCHANGED << mgr, ctx, m_stop, m_devices, handles, dev, pump_pc, cb, td_it,
                    aborted, lastError, threadsStarted, peThreads, clock,
                    delivered, calls, live, callsAfterStop,
                    failedCreate, absentDelete >>

TeardownShutdown(s) ==
    /\ td_pc = "shutdown" /\ ~aborted
    /\ ctx' = IF s = 0 THEN "released" ELSE ctx
    /\ td_pc' = IF s = 0 THEN "done" ELSE "threw"
    /\ lastError' = IF s = 0 THEN "none" ELSE "ShutdownError"
    /\ mgr' = "destroyed"
    /\ tdlog' = Append(tdlog, << "shutdown" >>)
    /\ UNCHANGED << m_stop, m_devices, handles, dev, pump_pc, cb, td_it, aborted,
                    threadsStarted, peThreads, clock, delivered, calls, live,
                    callsAfterStop,
                    failedCreate, absentDelete >>

\* --------------------------------------------------------------------- Next
\* The statuses the driver can report for a stream request on handle h: a
\* request it rejects has the one status.
StreamStatuses(h, kind, on) == {StreamStatus(handles[h].dev, kind, on, s) : s \in Status}

\* The statuses the driver can report for an open of index i: an open it
\* rejects has the one status.
OpenStatuses(i) == {OpenStatus(i, s) : s \in Status}

AppStep ==
    \/ \E si \in Status, st \in Status : Construct(si, st)
    \/ deviceCount
    \/ \E i \in Indices : \E s \in OpenStatuses(i), sr \in Status, sd \in Status :
          createDevice(i, s, sr, sd)
    \/ \E i \in Indices : deleteDevice(i)
    \/ \E h \in DOMAIN handles : \E s \in StreamStatuses(h, "rgb", TRUE) : startRGB(h, s)
    \/ \E h \in DOMAIN handles : \E s \in StreamStatuses(h, "rgb", FALSE) : stopRGB(h, s)
    \/ \E h \in DOMAIN handles : \E s \in StreamStatuses(h, "depth", TRUE) : startDepth(h, s)
    \/ \E h \in DOMAIN handles : \E s \in StreamStatuses(h, "depth", FALSE) : stopDepth(h, s)

TeardownStep ==
    \/ TeardownBegin
    \/ \E s \in Status : TeardownDelete(s)
    \/ TeardownStop
    \/ TeardownJoin
    \/ \E s \in Status : TeardownShutdown(s)

PumpStep ==
    \/ PumpTest
    \/ PumpEnter
    \/ \E d \in Devices, kind \in Kinds : DriverDeliver(d, kind)
    \/ freenect_depth_callback
    \/ freenect_rgb_callback
    \/ \E s \in Status : PumpReturn(s)

Next == AppStep \/ TeardownStep \/ PumpStep

Spec == Init /\ [][Next]_vars

\* The motor, LED and accelerometer calls of a handle.  They change nothing of
\* the manager, the handles or the driver devices, so the lifecycle claims are
\* checked without them; DeviceSpec adds them.
CommandStep ==
    \/ \E h \in DOMAIN handles, s \in Status : setTiltDegrees(h, s)
    \/ \E h \in DOMAIN handles, s \in Status : setLed(h, s)
    \/ \E h \in DOMAIN handles, s \in Status : getAccelerometers(h, s)
    \/ \E h \in DOMAIN handles, s \in Status : getAccelerometersRaw(h, s)

DeviceSpec == Init /\ [][Next \/ CommandStep]_vars

\* A stream of device i is on.
Streaming(i) == dev[i].depthOn \/ dev[i].rgbOn

\* One application run with a driver that reports success for every call:
\* construct, createDevice(i), start one stream, frames, stop the stream once
\* a frame was delivered, deleteDevice(i), destroy the manager.  Each call is
\* enabled where the run has reached it; the event thread interleaves as in
\* Next.  The registry is empty when the manager is destroyed, so the loop of
\* ~Freenect has no iteration.
ScenarioNext ==
    \/ Construct(0, 0)
    \/ \E i \in Devices : handles = EmptyMap /\ createDevice(i, 0, 0, 0)
    \/ \E i \in Devices :
          (i \in DOMAIN m_devices /\ ~Streaming(i) /\ clock = 0) /\ startDepth(m_devices[i], 0)
    \/ \E i \in Devices :
          (i \in DOMAIN m_devices /\ ~Streaming(i) /\ clock = 0) /\ startRGB(m_devices[i], 0)
    \/ \E i \in Devices :
          (i \in DOMAIN m_devices /\ dev[i].depthOn /\ clock >= 1) /\ stopDepth(m_devices[i], 0)
    \/ \E i \in Devices :
          (i \in DOMAIN m_devices /\ dev[i].rgbOn /\ clock >= 1) /\ stopRGB(m_devices[i], 0)
    \/ \E i \in Devices :
          (i \in DOMAIN m_devices /\ ~Streaming(i) /\ clock >= 1) /\ deleteDevice(i)
    \/ (handles # EmptyMap /\ m_devices = EmptyMap) /\ TeardownBegin
    \/ TeardownStop
    \/ TeardownJoin
    \/ TeardownShutdown(0)
    \/ PumpTest
    \/ PumpEnter
    \/ \E d \in Devices, kind \in Kinds : DriverDeliver(d, kind)
    \/ freenect_depth_callback
    \/ freenect_rgb_callback
    \/ PumpReturn(0)

ScenarioSpec == Init /\ [][ScenarioNext]_vars

\* ------------------------------------------------------------ the claims
\* Devices of the handles the registry holds.
RegisteredDevs == {handles[m_devices[i]].dev : i \in DOMAIN m_devices}

\* Positions of tdlog that are device closes.
CloseSteps == {k \in 1 .. Len(tdlog) : tdlog[k][1] = "close"}

\* C1: every teardown performs its steps in the order destroy all registry
\* entries, set the stop flag, join the event thread, release the context:
\* when the stop flag is set every registered device has been closed, the join
\* returns only after the thread has exited, and the context is released only
\* after the join with all registered devices closed; a teardown that has
\* returned has released the context.
C1_TeardownOrder ==
    /\ \A k \in 1 .. Len(tdlog) :
         /\ tdlog[k][1] = "stop" =>
               /\ CloseSteps = 1 .. (k - 1)
               /\ {tdlog[j][2] : j \in CloseSteps} = RegisteredDevs
               /\ Cardinality(DOMAIN m_devices) = k - 1
               /\ m_stop
         /\ tdlog[k][1] = "join" =>
               /\ k > 1 /\ tdlog[k - 1][1] = "stop"
               /\ pump_pc = "exited"
         /\ tdlog[k][1] = "shutdown" =>
               /\ k > 1 /\ tdlog[k - 1][1] = "join"
               /\ \A d \in RegisteredDevs : ~dev[d].open
    /\ (ctx = "released" \/ td_pc = "done") =>
          /\ tdlog # << >>
          /\ tdlog[Len(tdlog)][1] = "shutdown"
    /\ m_stop => \E k \in 1 .. Len(tdlog) : tdlog[k][1] = "stop"

\* A teardown with every attached device registered has returned.
C1_Witness ==
    /\ td_pc = "done"
    /\ ctx = "released"
    /\ Cardinality(DOMAIN m_devices) >= 2
    /\ Len(tdlog) = Cardinality(DOMAIN m_devices) + 3

\* C2: deleteDevice(index) on a registered index removes the entry and
\* destroys the handle: when it returns the index is out of the registry, the
\* handle is dead and its driver device is closed.
C2_DeleteDestroys ==
    [][\A i \in Indices :
         (i \in DOMAIN m_devices /\ deleteDevice(i)) =>
            /\ i \notin DOMAIN m_devices'
            /\ ~handles'[m_devices[i]].alive
            /\ ~dev'[handles[m_devices[i]].dev].open]_vars

\* C3: while the manager is in use, the keys of the registry are exactly the
\* indices created successfully and not deleted since.
C3_RegistryIsLive == mgr = "alive" => DOMAIN m_devices = live

\* Two distinct indices were created and the lower one deleted.
C3_Witness ==
    /\ mgr = "alive"
    /\ live = {1}
    /\ DOMAIN m_devices = {1}
    /\ DOMAIN handles = {<< 0, 1 >>, << 1, 1 >>}

\* C4: a createDevice whose driver open failed has raised DeviceOpenError and
\* left the registry and the set of handles as it found them; DeviceOpenError
\* is raised by nothing else.
C4_OpenFailure ==
    /\ failedCreate.failed =>
          /\ lastError = "DeviceOpenError"
          /\ m_devices = failedCreate.reg
          /\ handles = failedCreate.hs
    /\ lastError = "DeviceOpenError" => failedCreate.failed

\* A create failed while the registry held an entry.
C4_Witness ==
    /\ failedCreate.failed
    /\ lastError = "DeviceOpenError"
    /\ DOMAIN m_devices # {}
    /\ td_pc = "idle"

\* C5: once teardown has set the stop flag and waits in the join, the event
\* thread begins at most one more event-processing call and is either still
\* on its way out of the loop or has returned, so that the join can return.
C5_PumpStops ==
    td_pc = "join" =>
       /\ callsAfterStop <= 1
       /\ pump_pc \in {"test", "call", "in", "cb", "exited"}

\* The frames a handle's overrides were invoked with, in order.
Seen(h) == [k \in 1 .. Len(calls[h]) |-> [kind |-> calls[h][k].kind, ts |-> calls[h][k].ts]]

\* C6: the frames the driver delivered for a device are exactly the frames the
\* handlers of the handle that owns it were invoked with, once each and in
\* delivery order (the one being dispatched excepted), each invocation on the
\* live owning handle.
C6_ExactlyOnce ==
    \A h \in DOMAIN handles :
       LET d == handles[h].dev
           inflight == pump_pc = "cb" /\ cb.dev = d
       IN  /\ \A k \in 1 .. Len(calls[h]) : calls[h][k].dev = d /\ calls[h][k].live
           /\ delivered[d] = IF inflight
                             THEN Append(Seen(h), [kind |-> cb.kind, ts |-> cb.ts])
                             ELSE Seen(h)

\* C7: a constructed manager has exactly one event thread, running from
\* construction until teardown; only that thread calls the driver's
\* event-processing operation and every frame callback runs on it.
C7_OnePumpThread ==
    /\ mgr \in {"alive", "destroyed"} => threadsStarted = 1
    /\ (mgr = "alive" /\ td_pc = "idle" /\ ~aborted) =>
          pump_pc \in {"test", "call", "in", "cb"}
    /\ peThreads \subseteq {"pump"}
    /\ \A h \in DOMAIN calls : \A k \in 1 .. Len(calls[h]) : calls[h][k].thread = "pump"

\* A frame callback has run and the thread is back in the driver.
C7_Witness ==
    /\ mgr = "alive"
    /\ peThreads = {"pump"}
    /\ \E h \in DOMAIN calls : calls[h] # << >>
    /\ pump_pc = "in"

\* C8: whenever createDevice or a handle operation can execute or has left a
\* trace (a handle, a DeviceOpenError, a StreamControlError), the event thread
\* has been started; a constructor whose thread start failed leaves no manager
\* to create devices on.
C8_ThreadBeforeDevices ==
    /\ mgr = "alive" => (threadsStarted >= 1 /\ pump_pc # "none")
    /\ (DOMAIN handles # {} \/ lastError \in {"DeviceOpenError", "StreamControlError"}) =>
          (threadsStarted >= 1 /\ pump_pc # "none")
    /\ threadsStarted = 0 => (mgr \in {"none", "failed"} /\ DOMAIN handles = {})

\* A device was created and one of its streams started.
C8_Witness ==
    /\ threadsStarted = 1
    /\ \E d \in Devices : dev[d].open /\ dev[d].depthOn

\* C9: a processing failure ends the event loop only, and the failure reaches
\* the application thread as EventProcessingError at the join of teardown.
C9_FailurePropagates ==
    pump_pc = "threw" =>
       /\ ~aborted
       /\ td_pc \in {"shutdown", "done"} => lastError = "EventProcessingError"

\* C10: a constructor that failed left nothing behind: after ThreadStartError
\* the context has been released, after InitError no thread was started.
C10_NoPartialConstruct ==
    /\ lastError = "ThreadStartError" => ctx # "open"
    /\ lastError = "InitError" => (threadsStarted = 0 /\ ctx = "none")

\* C11: a teardown that ended with a failure (a device close or the context
\* release failed) reports it only after the rest of the cleanup: every entry
\* of the registry has been destroyed, the stop flag is set and the event
\* thread has been joined.
C11_CleanupBeforeFailure ==
    (td_pc = "threw" /\ lastError \in {"DeviceCloseError", "ShutdownError"}) =>
       /\ \A i \in DOMAIN m_devices : ~handles[m_devices[i]].alive
       /\ m_stop
       /\ pump_pc = "exited"

\* C12: every driver call of the wrapper that reports a failure makes the
\* wrapping operation raise an error to its caller: the open, the pixel-format
\* and the depth-format call of createDevice, the stream starts and stops, the
\* tilt, LED and accelerometer calls, the device close and the context release
\* of teardown, and the context init and thread start of the constructor.
C12_EveryFailureSurfaced ==
    [][/\ \A si \in Status, st \in Status :
            (Construct(si, st) /\ (si # 0 \/ st # 0)) => lastError' # "none"
       /\ \A i \in Indices, s \in Status :
            \A sr \in FormatStatuses(i, s), sd \in FormatStatuses(i, s) :
               (createDevice(i, s, sr, sd) /\ (OpenStatus(i, s) # 0 \/ sr # 0 \/ sd # 0))
                  => lastError' # "none"
       /\ \A h \in DOMAIN handles, kind \in Kinds, on \in BOOLEAN, s \in Status :
            (/\ StreamControl(h, kind, on, s)
             /\ StreamStatus(handles[h].dev, kind, on, s) # 0)
               => lastError' # "none"
       /\ \A h \in DOMAIN handles :
            (\/ setTiltDegrees(h, Fail) \/ setLed(h, Fail)
             \/ getAccelerometers(h, Fail) \/ getAccelerometersRaw(h, Fail))
               => lastError' # "none"
       /\ (TeardownDelete(Fail) \/ TeardownShutdown(Fail)) => lastError' # "none"]_vars

\* C13: from the registration of its callbacks until its driver device is
\* closed, the user pointer of a handle's driver device is that same handle,
\* alive: an open device with a trampoline registered points at the handle
\* created for it, that handle has not been destroyed, and the device of a
\* live handle points at no other handle.
C13_UserPointerLive ==
    /\ \A d \in Devices :
         (dev[d].open /\ (dev[d].depthCb \/ dev[d].rgbCb)) =>
            /\ dev[d].user \in DOMAIN handles
            /\ handles[dev[d].user].dev = d
            /\ handles[dev[d].user].alive
    /\ \A h \in DOMAIN handles :
         handles[h].alive => (dev[handles[h].dev].open /\ dev[handles[h].dev].user = h)

\* C14: deleteDevice(index) for an index that is not in the registry is a
\* no-op: when it has returned, the registry, every handle, the driver's
\* devices, the stop flag and the event thread are as it found them, and it
\* raised no error.
C14_AbsentDeleteNoOp ==
    absentDelete.absent =>
       /\ lastError = "none"
       /\ m_devices = absentDelete.reg
       /\ handles = absentDelete.hs
       /\ dev = absentDelete.dv
       /\ m_stop = absentDelete.stop
       /\ threadsStarted = absentDelete.threads
       /\ td_pc = "idle"

\* An unregistered index was deleted while another device was registered and
\* streaming.
C14_Witness ==
    /\ absentDelete.absent
    /\ \E i \in DOMAIN m_devices : dev[handles[m_devices[i]].dev].depthOn
    /\ \E h \in DOMAIN handles : calls[h] # << >>

\* C15: in the run of ScenarioNext (a driver that never fails; construct,
\* createDevice, start a stream, frames, stop it, deleteDevice, destroy the
\* manager) the handler of the handle is invoked once for every frame the
\* driver delivered, in delivery order; deleteDevice leaves the index out of
\* the registry; teardown joins the event thread and returns without an error:
\* no call raises, the process is never killed, and a teardown that returned
\* has joined the thread and released the context with every frame handled.
C15_Scenario ==
    /\ ~aborted
    /\ lastError = "none"
    /\ td_pc # "threw"
    /\ \A h \in DOMAIN handles :
          LET d == handles[h].dev
              inflight == pump_pc = "cb" /\ cb.dev = d
          IN  /\ \A k \in 1 .. Len(calls[h]) : calls[h][k].live
              /\ \A k \in 1 .. (Len(calls[h]) - 1) : calls[h][k].ts <= calls[h][k + 1].ts
              /\ delivered[d] = IF inflight
                                THEN Append(Seen(h), [kind |-> cb.kind, ts |-> cb.ts])
                                ELSE Seen(h)
    /\ (handles # EmptyMap /\ live = {}) => m_devices = EmptyMap
    /\ td_pc = "done" =>
          /\ pump_pc = "exited"
          /\ ctx = "released"
          /\ \A h \in DOMAIN handles : Len(calls[h]) = Len(delivered[handles[h].dev])

\* C16: no handle is destroyed while a frame callback into it is executing,
\* and no frame callback is dispatched to a handle already destroyed: the
\* handle of the callback the event thread is in is alive, and every handler
\* invocation so far was made on a live handle.
C16_NoCallbackOnDestroyed ==
    /\ pump_pc = "cb" => handles[cb.device].alive
    /\ \A h \in DOMAIN calls : \A k \in 1 .. Len(calls[h]) : calls[h][k].live

\* C17: freenect_process_events is never called on, or in progress on, a
\* released context: when teardown is about to call freenect_shutdown, has
\* called it, or the context is released, the event thread has returned from
\* its last freenect_process_events call and left its loop.
C17_NoEventsAfterRelease ==
    (\/ td_pc = "shutdown"
     \/ ctx = "released"
     \/ \E k \in 1 .. Len(tdlog) : tdlog[k][1] = "shutdown") =>
       /\ pump_pc = "exited"
       /\ cb = NoCb

\* The context is released after the event thread handled a frame and began
\* one more freenect_process_events call with the stop flag already set.
C17_Witness ==
    /\ ctx = "released"
    /\ peThreads = {"pump"}
    /\ callsAfterStop = 1
    /\ \E h \in DOMAIN calls : calls[h] # << >>

\* C18: an index is reusable after deletion: once createDevice(i) has
\* succeeded and deleteDevice(i) has returned, the driver accepts a further
\* open of the attached device i, so that createDevice(i) can succeed again
\* with a new handle.
C18_IndexReusable ==
    \A i \in Devices :
       (Callable /\ i \notin DOMAIN m_devices /\ (\E h \in DOMAIN handles : handles[h].dev = i)) =>
          /\ OpenStatus(i, 0) = 0
          /\ CreateInsert(i, OpenStatus(i, 0), NewHandle(i)) = Insert(m_devices, i, NewHandle(i))
          /\ NewHandle(i) \notin DOMAIN handles

\* C19: no driver device is leaked: when the driver context has been released
\* (and when teardown is about to release it), every device opened through the
\* manager has been closed, those whose registry entry deleteDevice removed
\* included.
C19_NoDeviceLeak ==
    (ctx = "released" \/ td_pc = "shutdown") => \A d \in Devices : ~dev[d].open

=============================================================================
